---- MODULE Spec2Model ----
(***************************************************************************)
(* Model of the remote-API call engine (RemoteAPI / Pluggable):            *)
(* the call() pipeline, the auth-strategy error hooks with the             *)
(* refresh-and-retry path, and the fixed-window rate limiter.              *)
(*                                                                         *)
(* Every action is one synchronous segment of the code: JavaScript runs a  *)
(* segment to completion and other invocations interleave only at the      *)
(* awaits (transport dispatch, token refresh).                             *)
(*                                                                         *)
(* dryRun keeps its initial value false (no method of the class sets it),  *)
(* so every admitted attempt is dispatched through doCall.                 *)
(***************************************************************************)
EXTENDS Integers, Sequences, FiniteSets, TLC

(* ---------------------------- bounds ----------------------------------- *)
MaxTime == 2        \* the clock runs from 0 to MaxTime
RateLimit == 2      \* rateLimit(), scaled down
WindowLength == 2   \* rateLimitWindowLength(), scaled down
MaxTemplateLen == 5 \* the longest URL template, in characters
MaxChainDepth == 3  \* the classes between the service and RemoteAPI
MaxOverflow == 2    \* the most calls a window rejects

\* the call() invocations made on the one service instance; they may overlap
CallIds == {1, 2}

(* ------------------------- endpoint registry --------------------------- *)
\* AuthStrategy.Type
StrategyTypes ==
  {"NONE", "BEARER_TOKEN", "REFRESHABLE_BEARER_TOKEN",
   "UNIPILE_CUSTOM_AUTH_BEARER_TOKEN"}

\* useAuthStrategies(): the strategy instances the service supplies
AuthStrategies == {"BEARER_TOKEN", "REFRESHABLE_BEARER_TOKEN"}

\* a headers object without entries
EmptyHeaders == [k \in {} |-> <<>>]

\* _endpoints, as initEndpoints() builds it: name -> descriptor.
\* norm is the kind of normalizationMapping: none, an object, a function.
\* url is the URL template, a string of characters (see Chars); headers are
\* the static headers of the endpoint, header name -> value.
Endpoints ==
  [ getEmpty                      |-> [method |-> "GET",  authentication |-> "NONE",
                                       norm |-> "none",
                                       url |-> <<"/", ":", "a">>,
                                       headers |-> EmptyHeaders],
    bearerAuthEndpoint            |-> [method |-> "GET",  authentication |-> "BEARER_TOKEN",
                                       norm |-> "function",
                                       url |-> <<"/", "a", "/", ":", "a">>,
                                       headers |-> ("my-header" :> <<"test">>)],
    refreshableBearerAuthEndpoint |-> [method |-> "GET",  authentication |-> "REFRESHABLE_BEARER_TOKEN",
                                       norm |-> "none",
                                       url |-> <<"/", ":", "a", "/", ":", "a", "a">>,
                                       headers |-> ("shared" :> <<"endpoint">>)],
    refreshableNormalized         |-> [method |-> "POST", authentication |-> "REFRESHABLE_BEARER_TOKEN",
                                       norm |-> "object",
                                       url |-> <<"a", ":", "/", "/", "a", "/", ":", "a">>,
                                       headers |-> ("Authorization" :> <<"static">>)],
    putEndpoint                   |-> [method |-> "PUT",  authentication |-> "NONE",
                                       norm |-> "none",
                                       url |-> <<"/", ":", "a">>,
                                       headers |-> EmptyHeaders],
    customAuthEndpoint            |-> [method |-> "GET",
                                       authentication |-> "UNIPILE_CUSTOM_AUTH_BEARER_TOKEN",
                                       norm |-> "none",
                                       url |-> <<"/", ":", "a">>,
                                       headers |-> EmptyHeaders] ]

EndpointNames == DOMAIN Endpoints

\* names a caller may pass to call(): the registered ones and one that is not
CallableNames == EndpointNames \cup {"missing"}

EndpointEventTypes == {"before", "success", "error", "after"}

(* ------------------------------ state ---------------------------------- *)
VARIABLES
  now,                          \* Date.now()
  rateLimitWindowCounter,       \* _rateLimitWindowCounter
  lastWindowOverflow,           \* _lastWindowOverflow
  currentRateLimitWindowStart,  \* _currentRateLimitWindowStart
  rateLimitedApiCalls,          \* _rateLimitedApiCalls
  calls,                        \* one record per call() invocation
  admittedInWindow,             \* history: the admissions made since the
                                \* window start was last set
  built                         \* the result of a function of the service
                                \* looked at on its own (request building,
                                \* response normalization), with its arguments

vars == <<now, rateLimitWindowCounter, lastWindowOverflow,
          currentRateLimitWindowStart, rateLimitedApiCalls, calls,
          admittedInWindow, built>>

limiterVars == <<rateLimitWindowCounter, lastWindowOverflow,
                 currentRateLimitWindowStart, rateLimitedApiCalls>>

\* The rate-limit fields of the service, as one record.
Window ==
  [ counter      |-> rateLimitWindowCounter,
    lastOverflow |-> lastWindowOverflow,
    start        |-> currentRateLimitWindowStart,
    rateLimited  |-> rateLimitedApiCalls ]

\* A call() invocation that has not been made yet.
\*   pc        where the invocation is: idle, dispatch (awaiting doCall),
\*             refresh (awaiting refreshAccessToken), done
\*   attempt   1 in the outer try of call(), 2 in the inner (retry) try
\*   log       what the invocation did, in order
\*   response  apiCall.response of the working APICall: 0 is undefined,
\*             k is the response the transport returned to dispatch k
\*   data      apiCall.response.data: none (there is no response), raw (as
\*             the transport returned it), function (the return value of
\*             the normalization function), object (the result of
\*             normalizeWithObjectMapping)
\*   thrown    what each executeApiCall of the invocation ended in: the
\*             error it threw, "none" if it returned
\*   result    pending, returned, failed
\*   error     the error call() failed with
\*   params    what the caller passed (see CallParams)
IdleCall ==
  [ pc |-> "idle", endpoint |-> "missing", attempt |-> 1, log |-> <<>>,
    response |-> 0, data |-> "none", thrown |-> <<>>, result |-> "pending",
    error |-> "none",
    params |-> [overwriteUrl |-> FALSE, pathParams |-> TRUE,
                accessToken |-> FALSE] ]

(* ------------------------------ helpers -------------------------------- *)
RECURSIVE Count(_, _)
Count(s, x) ==
  IF s = <<>> THEN 0
  ELSE (IF Head(s) = x THEN 1 ELSE 0) + Count(Tail(s), x)

IsEvent(x) == x \in EndpointEventTypes

\* the events an invocation emitted, in order
Events(c) == SelectSeq(calls[c].log, IsEvent)

\* the number of transport dispatches (doCall) an invocation made
Dispatches(c) == Count(calls[c].log, "doCall")

\* index of the n-th occurrence of x in s, 0 if there is none
RECURSIVE IndexFrom(_, _, _, _)
IndexFrom(s, x, n, i) ==
  IF i > Len(s) THEN 0
  ELSE IF s[i] = x
       THEN (IF n = 1 THEN i ELSE IndexFrom(s, x, n - 1, i + 1))
       ELSE IndexFrom(s, x, n, i + 1)

Index(s, x, n) == IndexFrom(s, x, n, 1)

(* ---------------------------- rate limiter ----------------------------- *)
\* nextRateLimitWindow()
nextRateLimitWindow(W) == W.start + WindowLength

\* (variant) the window ends one tick late
WindowExpired_Late(t, W) == t > nextRateLimitWindow(W)

\* the window test of enforceGlobalRateLimit
WindowExpired(t, W) == t >= nextRateLimitWindow(W)

\* (variant) the limit test lets one call too many through
LimitExceeded_OffByOne(counter) == counter > RateLimit

\* the limit test of enforceGlobalRateLimit
LimitExceeded(counter) == counter >= RateLimit

\* (variant) the rollover leaves lastWindowOverflow as it was
ResetWindow_StaleOverflow(W, t) ==
  [ counter      |-> 0,
    lastOverflow |-> W.lastOverflow,
    start        |-> t,
    rateLimited  |-> <<>> ]

\* the rollover block of enforceGlobalRateLimit
ResetWindow(W, t) ==
  [ counter      |-> 0,
    lastOverflow |-> Len(W.rateLimited),
    start        |-> t,
    rateLimited  |-> <<>> ]

\* (variant) the increment of an admitted call is lost
enforceGlobalRateLimit_LostUpdate(W, t, apiCall) ==
  LET R == IF WindowExpired(t, W) THEN ResetWindow(W, t) ELSE W
  IN  IF LimitExceeded(R.counter)
      THEN [ window  |-> [R EXCEPT !.rateLimited = Append(@, apiCall)],
             limited |-> TRUE ]
      ELSE [ window  |-> R, limited |-> FALSE ]

\* enforceGlobalRateLimit(apiCall) at time t: the window it leaves and
\* its return value (TRUE: the call is rate limited)
enforceGlobalRateLimit(W, t, apiCall) ==
  LET R == IF WindowExpired(t, W) THEN ResetWindow(W, t) ELSE W
  IN  IF LimitExceeded(R.counter)
      THEN [ window  |-> [R EXCEPT !.rateLimited = Append(@, apiCall)],
             limited |-> TRUE ]
      ELSE [ window  |-> [R EXCEPT !.counter = @ + 1],
             limited |-> FALSE ]

\* (variant) any growth of the overflow is reported as growing
rolloverLogLevel_AnyGrowth(W, t) ==
  IF ~WindowExpired(t, W) \/ Len(W.rateLimited) = 0 THEN "none"
  ELSE IF Len(W.rateLimited) > W.lastOverflow THEN "error"
  ELSE "warn"

\* what the rollover block of enforceGlobalRateLimit hands to the logger:
\* logger.error (RATE LIMITED AND GROWING), logger.warn (RATE LIMITED) or
\* nothing
rolloverLogLevel(W, t) ==
  IF ~WindowExpired(t, W) \/ Len(W.rateLimited) = 0 THEN "none"
  ELSE IF W.lastOverflow > 0 /\ Len(W.rateLimited) > W.lastOverflow
       THEN "error"
  ELSE "warn"

\* the states of the limiter at an admission check: calls are rejected only
\* once the counter has reached rateLimit()
LimiterStates ==
  {W \in [ counter      : 0..RateLimit,
           lastOverflow : 0..MaxOverflow,
           start        : 0..MaxTime,
           rateLimited  : {[i \in 1..n |-> <<1, 1>>] : n \in 0..MaxOverflow} ] :
     W.rateLimited # <<>> => W.counter = RateLimit}

(* --------------------------- URL resolution ---------------------------- *)
\* A string is a sequence of characters.  The characters that matter to the
\* regular expressions of the URL code: the slash, the colon, characters of
\* [a-zA-Z0-9_] and any other character.
Chars == {"/", ":", "a", "."}

\* the class [a-zA-Z0-9_]
IsNameChar(ch) == ch \in {"a", "1", "2"}

\* baseUrl()
BaseUrl == <<"a", ":", "/", "/", "a">>

SchemeSeparator == <<":", "/", "/">>

\* String.prototype.includes
Includes(str, sub) ==
  \E i \in 1..(Len(str) - Len(sub) + 1) :
    SubSeq(str, i, i + Len(sub) - 1) = sub

\* resolveBaseUrl(url)
resolveBaseUrl(url) ==
  IF Includes(url, SchemeSeparator) THEN url ELSE BaseUrl \o url

\* the end of the longest run of name characters of str that starts at i
\* (i - 1 if there is none): the greedy [a-zA-Z0-9_]+
RECURSIVE NameRunEnd(_, _)
NameRunEnd(str, i) ==
  IF i <= Len(str) /\ IsNameChar(str[i]) THEN NameRunEnd(str, i + 1)
  ELSE i - 1

\* a match of /\/:([a-zA-Z0-9_]+)/ starts at i
PlaceholderAt(str, i) ==
  /\ i + 2 <= Len(str)
  /\ str[i] = "/"
  /\ str[i + 1] = ":"
  /\ IsNameChar(str[i + 2])

\* the exec loop of extractPathParamNames, from position i on
RECURSIVE ExtractFrom(_, _)
ExtractFrom(url, i) ==
  IF i > Len(url) THEN <<>>
  ELSE IF PlaceholderAt(url, i)
    THEN <<SubSeq(url, i + 2, NameRunEnd(url, i + 2))>>
           \o ExtractFrom(url, NameRunEnd(url, i + 2) + 1)
  ELSE ExtractFrom(url, i + 1)

\* extractPathParamNames(url)
extractPathParamNames(url) == ExtractFrom(url, 1)

\* the keys a pathParams object may have, and the value String(value) gives
\* for each
PathParamKeys == {<<"a">>, <<"a", "a">>}

PathParamValue(key) == IF key = <<"a">> THEN <<"1">> ELSE <<"2">>

\* Object.entries(pathParams) lists the keys in insertion order
KeyOrder == << <<"a">>, <<"a", "a">> >>

\* the pathParams argument: not given, or an object with some of the keys
PathParamsInputs ==
  {[given |-> FALSE, keys |-> {}]}
    \cup {[given |-> TRUE, keys |-> K] : K \in SUBSET PathParamKeys}

\* validatePathParams(url, requiredPathParams, pathParams): TRUE when it
\* throws
validatePathParams(requiredPathParams, pathParams) ==
  IF requiredPathParams = <<>> THEN FALSE
  ELSE IF ~pathParams.given THEN TRUE
  ELSE \E i \in DOMAIN requiredPathParams :
         requiredPathParams[i] \notin pathParams.keys

\* a match of the expression `:${key}(?=/|$)` starts at i
KeyAt(str, i, key) ==
  /\ str[i] = ":"
  /\ i + Len(key) <= Len(str)
  /\ SubSeq(str, i + 1, i + Len(key)) = key
  /\ (i + Len(key) = Len(str) \/ str[i + Len(key) + 1] = "/")

\* acc.replace(new RegExp(`:${key}(?=/|$)`, 'g'), value), from position i on
RECURSIVE ReplaceFrom(_, _, _, _)
ReplaceFrom(acc, i, key, value) ==
  IF i > Len(acc) THEN <<>>
  ELSE IF KeyAt(acc, i, key)
    THEN value \o ReplaceFrom(acc, i + Len(key) + 1, key, value)
  ELSE <<acc[i]>> \o ReplaceFrom(acc, i + 1, key, value)

\* the reduce of replacePathParams over the entries from the n-th on
RECURSIVE ReplaceEntries(_, _, _)
ReplaceEntries(acc, keys, n) ==
  IF n > Len(KeyOrder) THEN acc
  ELSE IF KeyOrder[n] \in keys
    THEN ReplaceEntries(
           ReplaceFrom(acc, 1, KeyOrder[n], PathParamValue(KeyOrder[n])),
           keys, n + 1)
  ELSE ReplaceEntries(acc, keys, n + 1)

\* replacePathParams(url, pathParams)
replacePathParams(url, pathParams) ==
  IF ~pathParams.given THEN url ELSE ReplaceEntries(url, pathParams.keys, 1)

\* constructUrl(url, pathParams): the URL it returns or the error it throws
constructUrl(url, pathParams) ==
  LET resolvedUrl == resolveBaseUrl(url)
      requiredPathParams == extractPathParamNames(resolvedUrl)
  IN  IF validatePathParams(requiredPathParams, pathParams)
      THEN [error |-> "MissingPathParameter", url |-> <<>>]
      ELSE [error |-> "none", url |-> replacePathParams(resolvedUrl, pathParams)]

(* ---------------------- building the registry ------------------------- *)
\* The prototype chain of a service, from the service's own class (level 1)
\* up to the class that extends RemoteAPI.  At each level a method name is
\* absent, a plain method, or a method declared as an endpoint (its
\* 'http:method' metadata defined at that level).
MethodNames == {"search", "create"}

Chains ==
  [1..MaxChainDepth -> [MethodNames -> {"absent", "plain", "declared"}]]

\* Reflect.getMetadata('http:method', prototype, name) with prototype at
\* level i: the metadata of the nearest level from i upwards that defines
\* it (the level is its identity), 0 when there is none
RECURSIVE getMetadata(_, _, _)
getMetadata(chain, i, name) ==
  IF i > MaxChainDepth THEN 0
  ELSE IF chain[i][name] = "declared" THEN i
  ELSE getMetadata(chain, i + 1, name)

\* (variant) a name already in the registry is not assigned again
RegisterLevel_KeepFirst(chain, i, endpoints) ==
  [name \in MethodNames |->
     IF chain[i][name] # "absent" /\ getMetadata(chain, i, name) # 0
        /\ endpoints[name] = 0
     THEN getMetadata(chain, i, name)
     ELSE endpoints[name]]

\* the body of the while loop of initEndpoints for the prototype at level i:
\* every own method with metadata is assigned to endpoints[name]
RegisterLevel(chain, i, endpoints) ==
  [name \in MethodNames |->
     IF chain[i][name] # "absent" /\ getMetadata(chain, i, name) # 0
     THEN getMetadata(chain, i, name)
     ELSE endpoints[name]]

\* the while loop of initEndpoints from level i on: it walks from the
\* service's own prototype towards RemoteAPI.prototype
RECURSIVE InitEndpointsFrom(_, _, _)
InitEndpointsFrom(chain, i, endpoints) ==
  IF i > MaxChainDepth THEN endpoints
  ELSE InitEndpointsFrom(chain, i + 1, RegisterLevel(chain, i, endpoints))

\* initEndpoints(): name -> the level whose declaration the registry holds
\* (0: the name is not registered)
initEndpoints(chain) ==
  InitEndpointsFrom(chain, 1, [name \in MethodNames |-> 0])

\* constructor(): the service it leaves, for endpoint declarations that name
\* the strategy types `declared` and a useAuthStrategies() that supplies
\* instances of the types `supplied`.  It builds the registry and keys the
\* strategies by type; error is what it throws ("none": the service exists).
constructor(declared, supplied) ==
  [ error |-> "none", endpointTypes |-> declared, authStrategies |-> supplied ]

(* -------------------------- request building --------------------------- *)
\* the access tokens a caller may hold
AccessTokens == {"t1", "t2"}

\* params as buildApiCall reads them: pathParams and auth.accessToken
\* ("none": params carry no access token)
BuildParams ==
  [ pathParams : PathParamsInputs, accessToken : {"none"} \cup AccessTokens ]

\* the overwriteUrl argument; the empty string stands for "not given" (both
\* are falsy in `overwriteUrl || ...`)
OverwriteUrlInputs ==
  { <<>>,
    <<"a", ":", "/", "/", "a", ".", "a">>,
    <<"a", ":", "/", "/", "a", "/", ":", "a">> }

\* what defaultHeaders() may return: {} in the base class, anything in a
\* service that overrides it
DefaultHeaderInputs ==
  { EmptyHeaders,
    "default-header" :> <<"default">>,
    ("shared" :> <<"default">>) @@ ("Authorization" :> <<"default">>) }

\* (variant) the default headers win on a key collision
addDefaultHeaders_DefaultsWin(defaults, headers) ==
  [k \in DOMAIN defaults \cup DOMAIN headers |->
     IF k \in DOMAIN defaults THEN defaults[k] ELSE headers[k]]

\* addDefaultHeaders: { ...this.defaultHeaders(), ...apiCall.request.headers }
addDefaultHeaders(defaults, headers) ==
  [k \in DOMAIN defaults \cup DOMAIN headers |->
     IF k \in DOMAIN headers THEN headers[k] ELSE defaults[k]]

\* what a request-building function gives: the error it throws, or the
\* request's url and headers
Built(error, url, headers) ==
  [error |-> error, url |-> url, headers |-> headers]

\* (variant) the bearer strategy lets a request without a token through
BearerExecute_NoCheck(accessToken, url, headers) ==
  Built("none", url,
        [k \in DOMAIN headers \cup {"Authorization"} |->
           IF k = "Authorization" THEN <<"Bearer ", accessToken>>
           ELSE headers[k]])

\* BearerTokenAuthStrategy.execute
BearerExecute(accessToken, url, headers) ==
  IF accessToken = "none" THEN Built("InvalidAuthParams", <<>>, EmptyHeaders)
  ELSE Built("none", url,
             [k \in DOMAIN headers \cup {"Authorization"} |->
                IF k = "Authorization" THEN <<"Bearer ", accessToken>>
                ELSE headers[k]])

\* authStrategy.execute of the strategy of the given type
StrategyExecute(type, accessToken, url, headers) ==
  IF type = "NONE" THEN Built("none", url, headers)
  ELSE BearerExecute(accessToken, url, headers)

\* (variant) the URL template is resolved before overwriteUrl is looked at
RequestUrl_ResolveFirst(endpoint, params, overwriteUrl) ==
  LET r == constructUrl(endpoint.url, params.pathParams)
  IN  IF r.error # "none" \/ overwriteUrl = <<>> THEN r
      ELSE [error |-> "none", url |-> overwriteUrl]

\* overwriteUrl || this.constructUrl(endpoint.url, params?.pathParams)
RequestUrl(endpoint, params, overwriteUrl) ==
  IF overwriteUrl # <<>> THEN [error |-> "none", url |-> overwriteUrl]
  ELSE constructUrl(endpoint.url, params.pathParams)

\* buildApiCall(endpoint, params, authStrategy, overwriteUrl), in a service
\* whose defaultHeaders() returns defaults
buildApiCall(endpoint, params, overwriteUrl, defaults) ==
  LET r == RequestUrl(endpoint, params, overwriteUrl)
  IN  IF r.error # "none" THEN Built(r.error, <<>>, EmptyHeaders)
      ELSE StrategyExecute(endpoint.authentication, params.accessToken, r.url,
                           addDefaultHeaders(defaults, endpoint.headers))

\* Header objects by reference.  A heap maps object identities to header
\* objects; object 0 is the headers object of the endpoint descriptor, which
\* `headers: endpoint.headers || {}` hands to the new APICall as it is.
HeaderHeap(endpoint) == 0 :> endpoint.headers

\* (variant) the defaults are merged into the object the request refers to
AddDefaultHeadersObject_InPlace(heap, ref, defaults) ==
  [ heap |-> [heap EXCEPT ![ref] = addDefaultHeaders(defaults, heap[ref])],
    ref  |-> ref ]

\* addDefaultHeaders assigns a new object literal to apiCall.request.headers:
\* the heap with the new object, and the reference the request holds
AddDefaultHeadersObject(heap, ref, defaults) ==
  LET new == Cardinality(DOMAIN heap)
  IN  [ heap |-> (new :> addDefaultHeaders(defaults, heap[ref])) @@ heap,
        ref  |-> new ]

\* authStrategy.execute writes its credential into the object that
\* apiCall.request.headers refers to
ExecuteOnObject(heap, ref, type, accessToken) ==
  [heap EXCEPT ![ref] = StrategyExecute(type, accessToken, <<>>, heap[ref]).headers]

\* buildApiCall for a call with an access token, on header objects: the heap
\* it leaves and the reference request.headers holds
BuildApiCallObjects(heap, endpoint, accessToken, defaults) ==
  LET a == AddDefaultHeadersObject(heap, 0, defaults)
  IN  [ heap |-> ExecuteOnObject(a.heap, a.ref, endpoint.authentication,
                                 accessToken),
        ref  |-> a.ref ]

(* ------------------------ response normalization ---------------------- *)
\* A response payload is a JSON value: a leaf (a string or null) or an object,
\* field name -> value; response.data may also be undefined.
Undefined == [kind |-> "undefined"]

Leaves == {[kind |-> "leaf", value |-> v] : v \in {"abc", "null"}}

FieldNames == {"a", "b"}

\* the objects whose fields hold values of the set V
ObjectsOver(V) ==
  UNION {{[kind |-> "object", fields |-> f] : f \in [F -> V]} :
           F \in SUBSET FieldNames}

\* the payloads a provider may answer with: up to two levels of objects
Payloads ==
  {Undefined} \cup Leaves \cup ObjectsOver(Leaves \cup ObjectsOver(Leaves))

\* the source paths of a mapping: "a", "a.b", ... as lists of field names
Paths ==
  {<<f>> : f \in FieldNames} \cup {<<f, g>> : f, g \in FieldNames}

\* the target keys of a mapping
TargetKeys == {"x", "y"}

\* the mapping tables an endpoint may declare: target key -> source path
Mappings == UNION {[K -> Paths] : K \in SUBSET TargetKeys}

\* lodash get(payload, path): the value at the path, undefined when a step
\* of the path meets a value that is not an object or lacks the field
RECURSIVE get(_, _)
get(payload, path) ==
  IF path = <<>> THEN payload
  ELSE IF payload.kind # "object" THEN Undefined
  ELSE IF Head(path) \notin DOMAIN payload.fields THEN Undefined
  ELSE get(payload.fields[Head(path)], Tail(path))

\* (variant) a key whose path is missing is kept, holding undefined
normalizeWithObjectMapping_KeepsMissing(mapping, payload) ==
  [ data   |-> [kind |-> "object",
                fields |-> [k \in DOMAIN mapping |-> get(payload, mapping[k])]],
    warned |-> {} ]

\* normalizeWithObjectMapping(mapping, payload): the object it returns and
\* the target keys it logged a warning for
normalizeWithObjectMapping(mapping, payload) ==
  LET found == {k \in DOMAIN mapping : get(payload, mapping[k]) # Undefined}
  IN  [ data   |-> [kind |-> "object",
                    fields |-> [k \in found |-> get(payload, mapping[k])]],
        warned |-> DOMAIN mapping \ found ]

(* ------------------------- auth strategies ----------------------------- *)
\* What the overridable and injected functions answer for one provider
\* error: isAuthError, onAuthError (the base one throws), the refreshable
\* strategy's isAccessTokenExpiredError and buildRefreshAccessTokenPayload,
\* the service-level onApiError, and whether a normalization function throws.
HookInputs ==
  [ isAuthError               : BOOLEAN,
    onAuthError               : {"throw", "true", "false"},
    isAccessTokenExpiredError : BOOLEAN,
    hasPayloadBuilder         : BOOLEAN,
    onApiError                : {"true", "false", "throw"},
    normalizeThrows           : BOOLEAN ]

\* the hooks as the base classes define them
DefaultHooks ==
  [ isAuthError               |-> FALSE,
    onAuthError               |-> "throw",
    isAccessTokenExpiredError |-> FALSE,
    hasPayloadBuilder         |-> TRUE,
    onApiError                |-> "true",
    normalizeThrows           |-> FALSE ]

\* the answers that matter when a response is normalized
NormalizeInputs == {h \in HookInputs : \E b \in BOOLEAN :
                      h = [DefaultHooks EXCEPT !.normalizeThrows = b]}

\* the answers that matter when a provider error is handled (an answer that
\* is never consulted keeps its default)
ApiErrorInputs ==
  {h \in HookInputs :
     /\ ~h.isAuthError => h.onAuthError = "throw"
     /\ ~h.isAccessTokenExpiredError => h.hasPayloadBuilder
     /\ ~h.normalizeThrows}

\* the answers that matter when refreshAccessToken fails
RefreshErrorInputs == {h \in HookInputs : \E a \in {"true", "false", "throw"} :
                         h = [DefaultHooks EXCEPT !.onApiError = a]}

Return(v, l) == [kind |-> "return", value |-> v, error |-> "none", log |-> l]
Throw(e, l) == [kind |-> "throw", value |-> TRUE, error |-> e, log |-> l]
Await(l) == [kind |-> "await", value |-> TRUE, error |-> "none", log |-> l]

\* AuthStrategy.onApiError (the base class)
BaseOnApiError(h) ==
  IF h.isAuthError
  THEN IF h.onAuthError = "throw"
       THEN Throw("AuthenticationFailed", <<"onAuthError">>)
       ELSE Return(h.onAuthError = "true", <<"onAuthError">>)
  ELSE Return(TRUE, <<>>)

\* (variant) a refresh is skipped while the refresh of another invocation is
\* in flight, and the Retry signalled on the strength of that one
RefreshableOnApiError_SingleFlight(h) ==
  IF h.isAccessTokenExpiredError
  THEN IF ~h.hasPayloadBuilder
       THEN Throw("Error", <<"isAccessTokenExpiredError">>)
       ELSE IF \E d \in CallIds : calls[d].pc = "refresh"
       THEN Throw("RetryAPICall", <<"isAccessTokenExpiredError",
                                    "buildRefreshAccessTokenPayload">>)
       ELSE Await(<<"isAccessTokenExpiredError",
                    "buildRefreshAccessTokenPayload", "refreshAccessToken">>)
  ELSE BaseOnApiError(h)

\* RefreshableBearerTokenAuthStrategy.onApiError up to its await
RefreshableOnApiError(h) ==
  IF h.isAccessTokenExpiredError
  THEN IF ~h.hasPayloadBuilder
       THEN Throw("Error", <<"isAccessTokenExpiredError">>)
       ELSE Await(<<"isAccessTokenExpiredError",
                    "buildRefreshAccessTokenPayload", "refreshAccessToken">>)
  ELSE BaseOnApiError(h)

\* authStrategy.onApiError of the strategy of the given type
StrategyOnApiError(type, h) ==
  CASE type = "NONE" -> Return(TRUE, <<>>)
    [] type = "REFRESHABLE_BEARER_TOKEN" -> RefreshableOnApiError(h)
    [] OTHER -> BaseOnApiError(h)

\* the payloads a caller may pass in params, and the payload that
\* buildRefreshAccessTokenPayload(callParams) returns
RequestPayloads == {"p1", "p2"}

RefreshPayload == "refreshPayload"

\* callParams as the strategy's onApiError reads them
StrategyCallParams ==
  [ pathParams : PathParamsInputs, accessToken : {"none"} \cup AccessTokens,
    payload : RequestPayloads ]

\* what refreshAccessToken does: it rejects ("fails"), or resolves with a
\* response whose data holds an access token or none
RefreshAnswers == {"fails", "none"} \cup AccessTokens

\* the failed APICall handed to onApiError (id: the identity of the object;
\* url: its request.url, the overwriteUrl of the call or the URL resolved
\* from the endpoint's template)
FailedApiCalls ==
  {[id |-> 1, endpoint |-> name, url |-> url] :
     name \in {n \in EndpointNames :
                Endpoints[n].authentication = "REFRESHABLE_BEARER_TOKEN"},
     url \in (OverwriteUrlInputs \ {<<>>})
              \cup {constructUrl(Endpoints[n].url,
                                 [given |-> TRUE, keys |-> PathParamKeys]).url :
                      n \in EndpointNames}}

NoApiCall ==
  [id |-> 0, endpoint |-> "none", payload |-> "none",
   request |-> Built("none", <<>>, EmptyHeaders)]

\* the hook answers a strategy's onApiError depends on
StrategyHookInputs == {h \in ApiErrorInputs : h.onApiError = "true"}

\* RefreshableBearerTokenAuthStrategy.onApiError run to its end,
\* refreshAccessToken answering newTokens: the error it throws ("none": it
\* returns bubbleUp), the number of refreshes it made, the APICall its
\* RetryAPICall carries and the callParams as it leaves them
RefreshableOnApiErrorAwaited(apiCall, callParams, h, newTokens) ==
  LET r == RefreshableOnApiError(h)
  IN  IF r.kind # "await"
      THEN [thrown |-> r.error, bubbleUp |-> r.value, refreshes |-> 0,
            newApiCall |-> NoApiCall, callParams |-> callParams]
      ELSE LET refreshParams == [callParams EXCEPT !.payload = RefreshPayload]
               b == buildApiCall(Endpoints[apiCall.endpoint],
                                 [refreshParams EXCEPT !.accessToken = newTokens],
                                 <<>>, EmptyHeaders)
           IN  IF newTokens = "fails"
               THEN [thrown |-> "RefreshError", bubbleUp |-> TRUE,
                     refreshes |-> 1, newApiCall |-> NoApiCall,
                     callParams |-> refreshParams]
               ELSE IF b.error # "none"
               THEN [thrown |-> b.error, bubbleUp |-> TRUE, refreshes |-> 1,
                     newApiCall |-> NoApiCall, callParams |-> refreshParams]
               ELSE [thrown |-> "RetryAPICall", bubbleUp |-> TRUE,
                     refreshes |-> 1,
                     newApiCall |-> [id |-> apiCall.id + 1,
                                     endpoint |-> apiCall.endpoint,
                                     payload |-> callParams.payload,
                                     request |-> b],
                     callParams |-> refreshParams]

(* --------------------------- call pipeline ----------------------------- *)
Log(s, x) == [s EXCEPT !.log = Append(@, x)]

LogAll(s, l) == [s EXCEPT !.log = @ \o l]

Fail(s, e) == [s EXCEPT !.pc = "done", !.result = "failed", !.error = e]

\* (variant) the response is not stored on the APICall
RecordResponse_Dropped(s, response) == s

\* apiCall.response = response, at the end of executeApiCall
RecordResponse(s, response) ==
  [s EXCEPT !.response = response, !.data = "raw"]

\* what a segment of executeApiCall ends in: the invocation's record and
\* the error thrown ("none": it returned, "await": it is suspended)
Outcome(s, e) == [call |-> s, thrown |-> e]

\* what the caller passes besides the endpoint name
CallParams ==
  [ overwriteUrl : BOOLEAN,     \* overwriteUrl given
    pathParams   : BOOLEAN,     \* every placeholder of the template has a value
    accessToken  : BOOLEAN ]    \* params.auth.accessToken given

\* the params invocation c is made with: the first invocation ranges over
\* all of them, the other one is made without overwriteUrl
ParamsOf(c) ==
  IF c = 1 THEN CallParams ELSE {p \in CallParams : ~p.overwriteUrl}

ValidMethods == {"GET", "POST", "DELETE", "PATCH"}

\* (variant) the method is validated before the call is built
ConstructionError_ValidateFirst(name, p) ==
  IF name \notin EndpointNames THEN "EndpointNotFound"
  ELSE LET e == Endpoints[name] IN
    IF e.method \notin ValidMethods THEN "InvalidMethod"
    ELSE IF e.authentication # "NONE" /\ e.authentication \notin AuthStrategies
      THEN "AuthStrategyNotConfigured"
    ELSE IF ~p.overwriteUrl /\ ~p.pathParams THEN "MissingPathParameter"
    ELSE IF e.authentication \in {"BEARER_TOKEN", "REFRESHABLE_BEARER_TOKEN"}
            /\ ~p.accessToken
      THEN "InvalidAuthParams"
    ELSE "none"

\* call() up to validateApiCall: the error of the first failing step
ConstructionError(name, p) ==
  IF name \notin EndpointNames THEN "EndpointNotFound"
  ELSE LET e == Endpoints[name] IN
    IF e.authentication # "NONE" /\ e.authentication \notin AuthStrategies
      THEN "AuthStrategyNotConfigured"
    ELSE IF ~p.overwriteUrl /\ ~p.pathParams THEN "MissingPathParameter"
    ELSE IF e.authentication \in {"BEARER_TOKEN", "REFRESHABLE_BEARER_TOKEN"}
            /\ ~p.accessToken
      THEN "InvalidAuthParams"
    ELSE IF e.method \notin ValidMethods THEN "InvalidMethod"
    ELSE "none"

\* the buildApiCall that RefreshableBearerTokenAuthStrategy.onApiError makes
\* once the tokens are refreshed: the call's params with the new access token
\* (newToken: the refresh response carries one) and no overwriteUrl; the
\* error it throws, "RetryAPICall" when the build succeeds
RebuildApiCall(s, newToken) ==
  IF ~s.params.pathParams THEN "MissingPathParameter"
  ELSE IF ~newToken THEN "InvalidAuthParams"
  ELSE "RetryAPICall"

\* executeApiCall ended: it threw e, or returned ("none")
Ended(s, e) == [s EXCEPT !.thrown = Append(@, e)]

\* (variant) an error of the normalization function is caught and the raw
\* data kept
normalizeResponse_CatchesError(s, h) ==
  LET norm == Endpoints[s.endpoint].norm
  IN  IF norm = "none" THEN Outcome(s, "none")
      ELSE IF s.response = 0 THEN Outcome(s, "TypeError")
      ELSE IF norm = "function"
        THEN IF h.normalizeThrows
             THEN Outcome(LogAll(s, <<"normalizationMapping", "throws">>), "none")
             ELSE Outcome([Log(s, "normalizationMapping") EXCEPT
                             !.data = "function"], "none")
      ELSE Outcome([s EXCEPT !.data = "object"], "none")

\* normalizeResponse(params, apiCall): what it leaves in response.data, or
\* the error it throws (reading response.data of an undefined response is a
\* TypeError)
normalizeResponse(s, h) ==
  LET norm == Endpoints[s.endpoint].norm
  IN  IF norm = "none" THEN Outcome(s, "none")
      ELSE IF s.response = 0 THEN Outcome(s, "TypeError")
      ELSE IF norm = "function"
        THEN IF h.normalizeThrows
             THEN Outcome(LogAll(s, <<"normalizationMapping", "throws">>),
                          "NormalizationError")
             ELSE Outcome([Log(s, "normalizationMapping") EXCEPT
                             !.data = "function"], "none")
      ELSE Outcome([s EXCEPT !.data = "object"], "none")

\* (variant) success is emitted before the response is normalized
SucceedCall_EmitFirst(s, h) ==
  LET r == normalizeResponse(LogAll(s, <<"success", "normalizeResponse">>), h)
  IN  IF r.thrown # "none" THEN Fail(r.call, r.thrown)
      ELSE [Log(r.call, "after") EXCEPT !.pc = "done", !.result = "returned"]

\* normalizeResponse and the rest of call() after the try
SucceedCall(s, h) ==
  LET r == normalizeResponse(Log(s, "normalizeResponse"), h)
  IN  IF r.thrown # "none" THEN Fail(r.call, r.thrown)
      ELSE [LogAll(r.call, <<"success", "after">>) EXCEPT
              !.pc = "done", !.result = "returned"]

\* (variant) the inner catch lets a second RetryAPICall pass like any error
RetryCatch_SwallowRetry(s, err, h) ==
  SucceedCall(s, h)

\* the inner catch of call(): a failed retry
RetryCatch(s, err, h) ==
  IF err = "RetryAPICall" THEN Fail(s, "AuthenticationFailed")
  ELSE SucceedCall(s, h)

\* (variant) a rejected call is kept and handed to the transport all the same
ExecutePrefix_Deferred(c, s, W, t) ==
  LET r == enforceGlobalRateLimit(W, t, <<c, s.attempt>>)
  IN  IF r.limited
      THEN [call |-> [LogAll(s, <<"reject", "doCall">>) EXCEPT !.pc = "dispatch"],
            window |-> r.window, thrown |-> "none"]
      ELSE [call |-> [LogAll(s, <<"admit", "doCall">>) EXCEPT !.pc = "dispatch"],
            window |-> r.window, thrown |-> "none"]

\* executeApiCall up to its await of doCall
ExecutePrefix(c, s, W, t) ==
  LET r == enforceGlobalRateLimit(W, t, <<c, s.attempt>>)
  IN  IF r.limited
      THEN [call |-> Log(s, "reject"), window |-> r.window,
            thrown |-> "LocalRemoteAPIRateLimitExceeded"]
      ELSE [call |-> [LogAll(s, <<"admit", "doCall">>) EXCEPT !.pc = "dispatch"],
            window |-> r.window, thrown |-> "none"]

\* (variant) the outer catch retries whatever the error is
FirstCatch_RetryAnyError(c, s, W, t, err, h) ==
  LET r == ExecutePrefix(c, [s EXCEPT !.attempt = 2, !.response = 0,
                                         !.data = "none"], W, t)
  IN  IF r.thrown = "none"
      THEN [call |-> r.call, window |-> r.window]
      ELSE [call |-> RetryCatch(Ended(r.call, r.thrown), r.thrown, h),
            window |-> r.window]

\* (variant) the retried attempt is handed to the transport without an
\* admission check
FirstCatch_RetryUnchecked(c, s, W, t, err, h) ==
  IF err = "RetryAPICall"
  THEN [call |-> [Log([s EXCEPT !.attempt = 2, !.response = 0,
                                !.data = "none"], "doCall")
                    EXCEPT !.pc = "dispatch"],
        window |-> W]
  ELSE [call |-> Fail(LogAll(s, <<"error", "after">>), err), window |-> W]

\* the outer catch of call(): the first attempt failed with err
FirstCatch(c, s, W, t, err, h) ==
  IF err = "RetryAPICall"
  THEN LET r == ExecutePrefix(c, [s EXCEPT !.attempt = 2, !.response = 0,
                                         !.data = "none"], W, t)
       IN  IF r.thrown = "none"
           THEN [call |-> r.call, window |-> r.window]
           ELSE [call |-> RetryCatch(Ended(r.call, r.thrown), r.thrown, h),
                 window |-> r.window]
  ELSE [call |-> Fail(LogAll(s, <<"error", "after">>), err), window |-> W]

\* (variant) a retry is granted on every RetryAPICall, not only on the first
CallCatch_RetryAgain(c, s, W, t, err, h) ==
  FirstCatch(c, s, W, t, err, h)

\* call() from the point where executeApiCall threw err
CallCatch(c, s, W, t, err, h) ==
  IF s.attempt = 1 THEN FirstCatch(c, s, W, t, err, h)
  ELSE [call |-> RetryCatch(s, err, h), window |-> W]

\* (variant) the service-level answer is ignored: the error never bubbles
ServiceAfterReturn_NeverBubbles(s, h) ==
  IF h.onApiError = "throw"
  THEN Outcome(LogAll(s, <<"onApiError", "onApiError">>), "ServiceHookError")
  ELSE Outcome(Log(s, "onApiError"), "none")

\* executeApiCall after authStrategy.onApiError returned
ServiceAfterReturn(s, h) ==
  CASE h.onApiError = "throw" ->
         Outcome(LogAll(s, <<"onApiError", "onApiError">>), "ServiceHookError")
    [] h.onApiError = "true" -> Outcome(Log(s, "onApiError"), "ProviderError")
    [] OTHER -> Outcome(Log(s, "onApiError"), "none")

\* (variant) the service-level hook is consulted for a Retry signal too
ServiceAfterThrow_AlsoOnRetry(s, err, h) ==
  IF h.onApiError = "throw"
    THEN Outcome(Log(s, "onApiError"), "ServiceHookError")
  ELSE Outcome(Log(s, "onApiError"), err)

\* executeApiCall after authStrategy.onApiError threw err
ServiceAfterThrow(s, err, h) ==
  IF err = "RetryAPICall" THEN Outcome(s, err)
  ELSE IF h.onApiError = "throw"
    THEN Outcome(Log(s, "onApiError"), "ServiceHookError")
  ELSE Outcome(Log(s, "onApiError"), err)

\* (variant) the refresh is started but not awaited: the Retry is signalled
\* at once
ExecuteCatch_RefreshNotAwaited(s, isApi, h) ==
  IF ~isApi THEN Outcome(s, "TransportError")
  ELSE LET r == StrategyOnApiError(Endpoints[s.endpoint].authentication, h)
           s1 == LogAll(Log(s, "authStrategy.onApiError"), r.log)
       IN  CASE r.kind = "return" -> ServiceAfterReturn(s1, h)
             [] r.kind = "throw" -> ServiceAfterThrow(s1, r.error, h)
             [] OTHER -> Outcome(s1, "RetryAPICall")

\* the catch of executeApiCall: doCall failed (isApi: isApiError(error))
ExecuteCatch(s, isApi, h) ==
  IF ~isApi THEN Outcome(s, "TransportError")
  ELSE LET r == StrategyOnApiError(Endpoints[s.endpoint].authentication, h)
           s1 == LogAll(Log(s, "authStrategy.onApiError"), r.log)
       IN  CASE r.kind = "return" -> ServiceAfterReturn(s1, h)
             [] r.kind = "throw" -> ServiceAfterThrow(s1, r.error, h)
             [] OTHER -> Outcome([s1 EXCEPT !.pc = "refresh"], "await")

\* call() from the point where a segment of executeApiCall ended in o
Continue(c, o, W, t, h) ==
  IF o.thrown = "await" THEN [call |-> o.call, window |-> W]
  ELSE IF o.thrown = "none"
    THEN [call |-> SucceedCall(Ended(o.call, "none"), h), window |-> W]
  ELSE CallCatch(c, Ended(o.call, o.thrown), W, t, o.thrown, h)

SetWindow(W) ==
  /\ rateLimitWindowCounter' = W.counter
  /\ lastWindowOverflow' = W.lastOverflow
  /\ currentRateLimitWindowStart' = W.start
  /\ rateLimitedApiCalls' = W.rateLimited

\* no function has been looked at on its own
NoBuild == [op |-> "none"]

\* the admission checks that answered "not limited" in this step
RECURSIVE AdmissionsInStep(_)
AdmissionsInStep(S) ==
  IF S = {} THEN 0
  ELSE LET c == CHOOSE x \in S : TRUE
       IN  (Count(calls'[c].log, "admit") - Count(calls[c].log, "admit"))
             + AdmissionsInStep(S \ {c})

\* the history variable follows the step: it restarts when the window start
\* is set anew and counts the admissions of the step
RecordAdmissions ==
  admittedInWindow' =
    (IF currentRateLimitWindowStart' # currentRateLimitWindowStart
     THEN 0 ELSE admittedInWindow) + AdmissionsInStep(CallIds)

(* ------------------------------ actions -------------------------------- *)
Init ==
  /\ now = 0
  /\ rateLimitWindowCounter = 0
  /\ lastWindowOverflow = 0
  /\ currentRateLimitWindowStart = 0
  /\ rateLimitedApiCalls = <<>>
  /\ calls = [c \in CallIds |-> IdleCall]
  /\ admittedInWindow = 0
  /\ built = NoBuild

\* the clock advances
Tick ==
  /\ now < MaxTime
  /\ now' = now + 1
  /\ UNCHANGED <<limiterVars, calls, admittedInWindow, built>>

\* call(name, params, context, overwriteUrl) up to its first await
Call(c, name, p) ==
  /\ calls[c].pc = "idle"
  /\ LET e == ConstructionError(name, p) IN
     IF e # "none"
     THEN /\ calls' = [calls EXCEPT
                         ![c] = Fail([@ EXCEPT !.endpoint = name, !.params = p],
                                     e)]
          /\ UNCHANGED <<now, limiterVars, admittedInWindow, built>>
     ELSE LET s == Log([calls[c] EXCEPT !.endpoint = name, !.params = p],
                       "before")
              r == ExecutePrefix(c, s, Window, now)
              m == IF r.thrown = "none"
                   THEN [call |-> r.call, window |-> r.window]
                   ELSE CallCatch(c, Ended(r.call, r.thrown), r.window, now,
                                  r.thrown, DefaultHooks)
          IN  /\ calls' = [calls EXCEPT ![c] = m.call]
              /\ SetWindow(m.window)
              /\ RecordAdmissions
              /\ UNCHANGED <<now, built>>

\* the transport answers a dispatch with a response
TransportResponds(c, h) ==
  /\ calls[c].pc = "dispatch"
  /\ LET s == RecordResponse(Log(calls[c], "ok"), Dispatches(c))
     IN  calls' = [calls EXCEPT ![c] = SucceedCall(Ended(s, "none"), h)]
  /\ UNCHANGED <<now, limiterVars, admittedInWindow, built>>

\* the transport fails a dispatch; isApi: the error is a provider-API error
TransportFails(c, isApi, h) ==
  /\ calls[c].pc = "dispatch"
  /\ LET s == Log(calls[c], IF isApi THEN "apiError" ELSE "otherError")
         m == Continue(c, ExecuteCatch(s, isApi, h), Window, now, h)
     IN  /\ calls' = [calls EXCEPT ![c] = m.call]
         /\ SetWindow(m.window)
  /\ RecordAdmissions
  /\ UNCHANGED <<now, built>>

\* refreshAccessToken answers: the strategy rebuilds the call and throws
\* RetryAPICall, or the error of the rebuild
RefreshResponds(c, h, newToken) ==
  /\ calls[c].pc = "refresh"
  /\ LET s == LogAll(calls[c], <<"refreshed", "buildApiCall">>)
         m == Continue(c, ServiceAfterThrow(s, RebuildApiCall(s, newToken), h),
                       Window, now, h)
     IN  /\ calls' = [calls EXCEPT ![c] = m.call]
         /\ SetWindow(m.window)
  /\ RecordAdmissions
  /\ UNCHANGED <<now, built>>

\* refreshAccessToken fails
RefreshFails(c, h) ==
  /\ calls[c].pc = "refresh"
  /\ LET s == Log(calls[c], "refreshFailed")
         m == Continue(c, ServiceAfterThrow(s, "RefreshError", h), Window, now, h)
     IN  /\ calls' = [calls EXCEPT ![c] = m.call]
         /\ SetWindow(m.window)
  /\ RecordAdmissions
  /\ UNCHANGED <<now, built>>

Next ==
  \/ Tick
  \/ \E c \in CallIds, name \in CallableNames :
       \E p \in ParamsOf(c) : Call(c, name, p)
  \/ \E c \in CallIds, h \in NormalizeInputs : TransportResponds(c, h)
  \/ \E c \in CallIds, h \in ApiErrorInputs : TransportFails(c, TRUE, h)
  \/ \E c \in CallIds : TransportFails(c, FALSE, DefaultHooks)
  \/ \E c \in CallIds, h \in RefreshErrorInputs, newToken \in BOOLEAN :
       RefreshResponds(c, h, newToken)
  \/ \E c \in CallIds, h \in RefreshErrorInputs : RefreshFails(c, h)

Spec == Init /\ [][Next]_vars

\* the promise invocation c awaits (doCall's or refreshAccessToken's) settles
Settles(c) ==
  /\ calls[c].pc \in {"dispatch", "refresh"}
  /\ \/ \E h \in NormalizeInputs : TransportResponds(c, h)
     \/ \E h \in ApiErrorInputs : TransportFails(c, TRUE, h)
     \/ TransportFails(c, FALSE, DefaultHooks)
     \/ \E h \in RefreshErrorInputs, newToken \in BOOLEAN :
          RefreshResponds(c, h, newToken)
     \/ \E h \in RefreshErrorInputs : RefreshFails(c, h)

\* One invocation with every endpoint, parameter and hook answer, beside an
\* invocation of an endpoint without authentication that takes its share of
\* the rate-limit window.
LiveNext ==
  \/ Tick
  \/ \E name \in CallableNames : \E p \in ParamsOf(1) : Call(1, name, p)
  \/ Settles(1)
  \/ \E p \in ParamsOf(2) : Call(2, "getEmpty", p)
  \/ TransportResponds(2, DefaultHooks)
  \/ TransportFails(2, FALSE, DefaultHooks)

\* Every dispatch and every refresh that was started completes: the
\* continuation of an await runs once its promise has settled.
LiveSpec ==
  Init /\ [][LiveNext]_vars /\ \A c \in CallIds : WF_vars(Settles(c))

(* -- the registry, request-building and normalization functions alone -- *)
\* Each behaviour applies one of the functions once, to arguments drawn from
\* the input sets.
\* the strings of at most n characters
RECURSIVE Strings(_)
Strings(n) ==
  IF n = 0 THEN {<<>>}
  ELSE Strings(n - 1)
         \cup {Append(str, ch) : str \in {x \in Strings(n - 1) : Len(x) = n - 1},
                                 ch \in Chars}

\* the URL templates an endpoint may declare
Templates == Strings(MaxTemplateLen)

\* constructUrl(url, pathParams) is applied to a template
ConstructUrl(url, pathParams) ==
  /\ built = NoBuild
  /\ built' = [op |-> "constructUrl", url |-> url, pathParams |-> pathParams,
               result |-> constructUrl(url, pathParams)]
  /\ UNCHANGED <<now, limiterVars, calls, admittedInWindow>>

\* buildApiCall is applied to an endpoint of the registry whose strategy
\* buildAuthStrategy has resolved
BuildApiCall(name, params, overwriteUrl, defaults) ==
  /\ built = NoBuild
  /\ Endpoints[name].authentication \in {"NONE"} \cup AuthStrategies
  /\ built' = [op |-> "buildApiCall", endpoint |-> name, params |-> params,
               overwriteUrl |-> overwriteUrl, defaults |-> defaults,
               result |-> buildApiCall(Endpoints[name], params, overwriteUrl,
                                       defaults)]
  /\ UNCHANGED <<now, limiterVars, calls, admittedInWindow>>

\* normalizeWithObjectMapping is applied to a mapping and a payload
NormalizeWithObjectMapping(mapping, payload) ==
  /\ built = NoBuild
  /\ built' = [op |-> "normalizeWithObjectMapping", mapping |-> mapping,
               payload |-> payload,
               result |-> normalizeWithObjectMapping(mapping, payload)]
  /\ UNCHANGED <<now, limiterVars, calls, admittedInWindow>>

\* initEndpoints is applied to a prototype chain
InitEndpoints(chain) ==
  /\ built = NoBuild
  /\ built' = [op |-> "initEndpoints", chain |-> chain,
               result |-> initEndpoints(chain)]
  /\ UNCHANGED <<now, limiterVars, calls, admittedInWindow>>

\* a service is constructed
Construct(declared, supplied) ==
  /\ built = NoBuild
  /\ built' = [op |-> "constructor", declared |-> declared,
               supplied |-> supplied,
               result |-> constructor(declared, supplied)]
  /\ UNCHANGED <<now, limiterVars, calls, admittedInWindow>>

\* the refreshable strategy's onApiError is applied to a failed call
OnApiError(apiCall, callParams, h, newTokens) ==
  /\ built = NoBuild
  /\ built' = [op |-> "onApiError", apiCall |-> apiCall,
               callParams |-> callParams, h |-> h, newTokens |-> newTokens,
               result |-> RefreshableOnApiErrorAwaited(apiCall, callParams, h,
                                                       newTokens)]
  /\ UNCHANGED <<now, limiterVars, calls, admittedInWindow>>

\* enforceGlobalRateLimit is applied to a state of the limiter at time t
EnforceGlobalRateLimit(W, t) ==
  /\ built = NoBuild
  /\ built' = [op |-> "enforceGlobalRateLimit", window |-> W, now |-> t,
               logged |-> rolloverLogLevel(W, t),
               result |-> enforceGlobalRateLimit(W, t, <<2, 1>>)]
  /\ UNCHANGED <<now, limiterVars, calls, admittedInWindow>>

\* two APICalls are built for one endpoint, with an access token each; both
\* are alive when the second is built
BuildTwoApiCalls(name, first, second, defaults) ==
  /\ built = NoBuild
  /\ Endpoints[name].authentication \in {"NONE"} \cup AuthStrategies
  /\ LET a == BuildApiCallObjects(HeaderHeap(Endpoints[name]), Endpoints[name],
                                  first, defaults)
         b == BuildApiCallObjects(a.heap, Endpoints[name], second, defaults)
     IN  built' = [op |-> "buildTwoApiCalls", endpoint |-> name,
                   tokens |-> <<first, second>>, defaults |-> defaults,
                   heap |-> b.heap, refs |-> <<a.ref, b.ref>>]
  /\ UNCHANGED <<now, limiterVars, calls, admittedInWindow>>

BuildNext ==
  \/ \E url \in Templates, pathParams \in PathParamsInputs :
       ConstructUrl(url, pathParams)
  \/ \E name \in EndpointNames, params \in BuildParams,
        overwriteUrl \in OverwriteUrlInputs, defaults \in DefaultHeaderInputs :
       BuildApiCall(name, params, overwriteUrl, defaults)
  \/ \E mapping \in Mappings, payload \in Payloads :
       NormalizeWithObjectMapping(mapping, payload)
  \/ \E chain \in Chains : InitEndpoints(chain)
  \/ \E declared \in SUBSET StrategyTypes,
        supplied \in SUBSET (StrategyTypes \ {"NONE"}) :
       Construct(declared, supplied)
  \/ \E apiCall \in FailedApiCalls, callParams \in StrategyCallParams,
        h \in StrategyHookInputs, newTokens \in RefreshAnswers :
       OnApiError(apiCall, callParams, h, newTokens)
  \/ \E W \in LimiterStates, t \in 0..(MaxTime + WindowLength) :
       t >= W.start /\ EnforceGlobalRateLimit(W, t)
  \/ \E name \in EndpointNames, first \in AccessTokens, second \in AccessTokens,
        defaults \in DefaultHeaderInputs :
       BuildTwoApiCalls(name, first, second, defaults)

BuildSpec == Init /\ [][BuildNext]_vars

(* ------------------------------ claims --------------------------------- *)
Done(c) == calls[c].pc = "done"

Returned(c) == calls[c].result = "returned"

Failed(c) == calls[c].result = "failed"

\* position of the n-th dispatch in the log of c (0: there is none)
DispatchAt(c, n) == Index(calls[c].log, "doCall", n)

\* x is logged during attempt n of c (after dispatch n, before dispatch n+1)
DuringAttempt(c, n, x) ==
  /\ DispatchAt(c, n) > 0
  /\ \E i \in DOMAIN calls[c].log :
       /\ calls[c].log[i] = x
       /\ i > DispatchAt(c, n)
       /\ DispatchAt(c, n + 1) > 0 => i < DispatchAt(c, n + 1)

\* C1: an invocation dispatches the transport at most twice, and a second
\* dispatch only follows a Retry signal (thrown once the token is refreshed).
C1_AtMostTwoDispatches ==
  \A c \in CallIds :
    /\ Dispatches(c) <= 2
    /\ Dispatches(c) = 2 =>
         /\ Index(calls[c].log, "refreshed", 1) > 0
         /\ Index(calls[c].log, "refreshed", 1) < DispatchAt(c, 2)

\* a finished invocation whose retried attempt ended in a second Retry signal
C1_Witness ==
  \E c \in CallIds :
    Done(c) /\ Dispatches(c) = 2 /\ Count(calls[c].log, "refreshed") = 2

\* C2: first dispatch fails with an expired-token error, second dispatch
\* succeeds: exactly two dispatches, and call() returns the second response.
C2_RetryReturnsSecondResponse ==
  \A c \in CallIds :
    (Done(c) /\ DuringAttempt(c, 1, "isAccessTokenExpiredError")
             /\ DuringAttempt(c, 2, "ok"))
      => (Dispatches(c) = 2 /\ Returned(c) /\ calls[c].response = 2)

C2_Witness ==
  \E c \in CallIds :
    Done(c) /\ DuringAttempt(c, 1, "isAccessTokenExpiredError")
            /\ DuringAttempt(c, 2, "ok") /\ Returned(c)

BeforeErrorAfter == <<"before", "error", "after">>

BeforeSuccessAfter == <<"before", "success", "after">>

\* c made an admission check in this step
Checked(c) ==
  Count(calls'[c].log, "admit") + Count(calls'[c].log, "reject")
    = Count(calls[c].log, "admit") + Count(calls[c].log, "reject") + 1

Admitted(c) == Count(calls'[c].log, "admit") = Count(calls[c].log, "admit") + 1

Rejected(c) == Count(calls'[c].log, "reject") = Count(calls[c].log, "reject") + 1

InsideWindow == now < currentRateLimitWindowStart + WindowLength

\* C3: a retried attempt that fails with a provider error or with a
\* LocalRateLimitExceeded rejection makes call() fail with that error, after
\* emitting error and after, and without success or a returned response.
C3_RetryErrorIsTerminal ==
  \A c \in CallIds :
    (Done(c) /\ Len(calls[c].thrown) = 2
       /\ calls[c].thrown[2] \in {"ProviderError", "LocalRemoteAPIRateLimitExceeded"})
      => (Failed(c) /\ calls[c].error = calls[c].thrown[2]
            /\ Events(c) = BeforeErrorAfter)

\* C4: a retried attempt that itself ends in a Retry signal makes call() fail
\* with AuthenticationFailed, and there is no third dispatch.
C4_SecondRetryIsFatal ==
  \A c \in CallIds :
    (Len(calls[c].thrown) >= 2 /\ calls[c].thrown[2] = "RetryAPICall")
      => (Done(c) /\ Failed(c) /\ calls[c].error = "AuthenticationFailed"
            /\ Dispatches(c) = 2)

C4_Witness ==
  \E c \in CallIds :
    /\ Len(calls[c].thrown) = 2 /\ calls[c].thrown[2] = "RetryAPICall"
    /\ calls[c].error = "AuthenticationFailed"

\* the first dispatch of c failed with a provider error that neither
\* isAccessTokenExpiredError nor isAuthError classified
UnclassifiedProviderError(c) ==
  /\ DuringAttempt(c, 1, "apiError")
  /\ ~DuringAttempt(c, 1, "isAccessTokenExpiredError")
  /\ ~DuringAttempt(c, 1, "onAuthError")

C6_SuccessEvents ==
  \A c \in CallIds :
    Returned(c) =>
      /\ Events(c) = BeforeSuccessAfter
      /\ Index(calls[c].log, "normalizeResponse", 1) > 0
      /\ Index(calls[c].log, "normalizeResponse", 1)
           < Index(calls[c].log, "success", 1)

\* a call that returned the response of its dispatch through an endpoint
\* with a normalization rule
C6_Witness ==
  \E c \in CallIds :
    /\ Returned(c) /\ calls[c].response > 0
    /\ Endpoints[calls[c].endpoint].norm # "none"

\* the errors of the failures C7 lists: rate-limit rejection, dispatch
\* failure, hook-raised error, exhausted retry
PipelineErrors ==
  {"LocalRemoteAPIRateLimitExceeded", "ProviderError", "TransportError",
   "ServiceHookError", "AuthenticationFailed", "Error", "RefreshError"}

\* C7: a call() that fails after emitting before has emitted exactly
\* before, error, after.
C7_FailureEvents ==
  \A c \in CallIds :
    (Failed(c) /\ Count(calls[c].log, "before") > 0
       /\ calls[c].error \in PipelineErrors)
      => Events(c) = BeforeErrorAfter

\* C8: an admission check inside the current window admits and adds 1 to the
\* counter when counter < rateLimit(); when counter = rateLimit() it rejects:
\* the counter is unchanged, the call is not dispatched and call() fails with
\* LocalRateLimitExceeded.
C8_AdmissionInsideWindow ==
  [][\A c \in CallIds :
       (Checked(c) /\ InsideWindow) =>
         /\ rateLimitWindowCounter < RateLimit =>
              /\ Admitted(c)
              /\ rateLimitWindowCounter' = rateLimitWindowCounter + 1
         /\ rateLimitWindowCounter = RateLimit =>
              /\ Rejected(c)
              /\ rateLimitWindowCounter' = rateLimitWindowCounter
              /\ Count(calls'[c].log, "doCall") = Count(calls[c].log, "doCall")
              /\ calls'[c].result = "failed"
              /\ calls'[c].error = "LocalRemoteAPIRateLimitExceeded"]_vars

\* C9: an admission check made once the window length has elapsed resets the
\* counter first, so the call is admitted and the counter is 1 afterwards.
C9_RolloverAdmits ==
  [][\A c \in CallIds :
       (Checked(c) /\ ~InsideWindow) =>
         /\ Admitted(c)
         /\ rateLimitWindowCounter' = 1
         /\ currentRateLimitWindowStart' = now]_vars

\* a window opened by a rollover whose previous window had overflowed, with
\* the call that opened it admitted
C9_Witness ==
  /\ currentRateLimitWindowStart > 0
  /\ lastWindowOverflow > 0
  /\ rateLimitWindowCounter = 1
  /\ \E c \in CallIds : calls[c].pc = "dispatch"

\* C10: the counter stays within 0..rateLimit().
C10_CounterInRange ==
  rateLimitWindowCounter >= 0 /\ rateLimitWindowCounter <= RateLimit

\* a full window that has rejected a call
C10_Witness ==
  rateLimitWindowCounter = RateLimit /\ Len(rateLimitedApiCalls) > 0

\* C11: with invocations overlapping at their awaits, the admission check
\* acts as one step: the admissions made within one window never exceed
\* rateLimit(), and every admission takes a slot of its own (the counter
\* counts each of them, so no two calls share the last free slot).
C11_AdmissionIsAtomic ==
  /\ admittedInWindow <= RateLimit
  /\ admittedInWindow = rateLimitWindowCounter

\* a full window filled by both invocations, one of them still in flight,
\* in which a further check was turned away
C11_Witness ==
  /\ admittedInWindow = RateLimit
  /\ Len(rateLimitedApiCalls) > 0
  /\ \A c \in CallIds : Count(calls[c].log, "admit") >= 1
  /\ \E c \in CallIds : calls[c].pc = "dispatch"

\* no dispatch follows a rejection in the log of c
NoDispatchAfterReject(c) ==
  \A i, j \in DOMAIN calls[c].log :
    (calls[c].log[i] = "reject" /\ calls[c].log[j] = "doCall") => j < i

\* what a step may do to the overflow buffer: leave it, append the call it
\* rejects, or (at a rollover) count it into lastWindowOverflow and clear it
OverflowBufferStep ==
  \/ rateLimitedApiCalls' = rateLimitedApiCalls
  \/ /\ currentRateLimitWindowStart' = currentRateLimitWindowStart
     /\ Len(rateLimitedApiCalls') = Len(rateLimitedApiCalls) + 1
     /\ SubSeq(rateLimitedApiCalls', 1, Len(rateLimitedApiCalls))
          = rateLimitedApiCalls
     /\ \E c \in CallIds : Rejected(c)
  \/ /\ currentRateLimitWindowStart' # currentRateLimitWindowStart
     /\ lastWindowOverflow' = Len(rateLimitedApiCalls)
     /\ Len(rateLimitedApiCalls') <= 1

\* C12: a call rejected by the rate limiter is never dispatched later: the
\* invocation ends in the step that rejects it and no later step adds a
\* dispatch to it, and the overflow buffer is only appended to, or counted
\* and cleared at a rollover.
C12_RejectedNeverDispatched ==
  /\ [](\A c \in CallIds :
         /\ NoDispatchAfterReject(c)
         /\ Count(calls[c].log, "reject") > 0 => Done(c))
  /\ [][OverflowBufferStep]_vars

\* an invocation was rejected, a later rollover counted and cleared the
\* buffer, and the other invocation is dispatched in the new window
C12_Witness ==
  /\ \E c \in CallIds : Count(calls[c].log, "reject") > 0 /\ Done(c)
  /\ lastWindowOverflow > 0
  /\ rateLimitedApiCalls = <<>>
  /\ \E c \in CallIds : calls[c].pc = "dispatch"

\* the errors of the construction steps of call(): endpoint lookup,
\* auth-strategy resolution, URL resolution, authStrategy.execute, method
\* validation
ConstructionErrors ==
  {"EndpointNotFound", "AuthStrategyNotConfigured", "MissingPathParameter",
   "InvalidAuthParams", "InvalidMethod"}

\* C13: a call() that fails with the error of a construction step made no
\* transport dispatch and invoked neither the strategy's onApiError nor the
\* service-level onApiError.
C13_ConstructionErrorsReachNoHook ==
  \A c \in CallIds :
    (Failed(c) /\ calls[c].error \in ConstructionErrors)
      => /\ Dispatches(c) = 0
         /\ Count(calls[c].log, "authStrategy.onApiError") = 0
         /\ Count(calls[c].log, "onApiError") = 0

\* str from position i on, with every `/:name` placeholder replaced by a
\* slash and the value of pathParams[name]
RECURSIVE SubstituteFrom(_, _)
SubstituteFrom(str, i) ==
  IF i > Len(str) THEN <<>>
  ELSE IF PlaceholderAt(str, i)
    THEN <<"/">> \o PathParamValue(SubSeq(str, i + 2, NameRunEnd(str, i + 2)))
           \o SubstituteFrom(str, NameRunEnd(str, i + 2) + 1)
  ELSE <<str[i]>> \o SubstituteFrom(str, i + 1)

\* some `/:name` placeholder of str has no entry in pathParams
SomePlaceholderMissing(str, pathParams) ==
  \E i \in DOMAIN str :
    /\ PlaceholderAt(str, i)
    /\ \/ ~pathParams.given
       \/ SubSeq(str, i + 2, NameRunEnd(str, i + 2)) \notin pathParams.keys

\* C14: constructUrl uses a template containing "://" as is and appends any
\* other template to baseUrl(); it replaces every `/:name` placeholder by the
\* string value of pathParams[name]; it fails with MissingPathParameter if
\* and only if some placeholder has no entry in pathParams.
C14_UrlResolution ==
  built.op = "constructUrl" =>
    LET full == IF Includes(built.url, SchemeSeparator)
                THEN built.url ELSE BaseUrl \o built.url
    IN  /\ built.result.error \in {"none", "MissingPathParameter"}
        /\ built.result.error = "MissingPathParameter"
             <=> SomePlaceholderMissing(full, built.pathParams)
        /\ built.result.error = "none"
             => built.result.url = SubstituteFrom(full, 1)

\* the template of the built endpoint has a placeholder without a value
BuiltTemplateUnresolvable ==
  constructUrl(Endpoints[built.endpoint].url, built.params.pathParams).error
    = "MissingPathParameter"

\* C15: when overwriteUrl is supplied, the URL of the built APICall is
\* overwriteUrl exactly and the template is not resolved: no
\* MissingPathParameter, even if a placeholder of the template has no value.
C15_OverwriteUrlVerbatim ==
  (built.op = "buildApiCall" /\ built.overwriteUrl # <<>>)
    => /\ built.result.error # "MissingPathParameter"
       /\ built.result.error = "none" => built.result.url = built.overwriteUrl

\* an APICall built with overwriteUrl for an endpoint whose template could
\* not have been resolved
C15_Witness ==
  /\ built.op = "buildApiCall" /\ built.overwriteUrl # <<>>
  /\ BuiltTemplateUnresolvable
  /\ built.result.error = "none"
  /\ built.result.url = built.overwriteUrl

BuiltWithBearer ==
  Endpoints[built.endpoint].authentication
    \in {"BEARER_TOKEN", "REFRESHABLE_BEARER_TOKEN"}

\* C16: the headers of a built APICall are the default headers overridden
\* by the endpoint's static headers (the endpoint wins a collision), with the
\* strategy's credential header set after that.
C16_HeaderMerge ==
  (built.op = "buildApiCall" /\ built.result.error = "none") =>
    LET static == Endpoints[built.endpoint].headers
        got == built.result.headers
    IN  /\ DOMAIN got = DOMAIN built.defaults \cup DOMAIN static
                          \cup (IF BuiltWithBearer THEN {"Authorization"} ELSE {})
        /\ \A k \in DOMAIN got :
             got[k] = IF BuiltWithBearer /\ k = "Authorization"
                        THEN <<"Bearer ", built.params.accessToken>>
                      ELSE IF k \in DOMAIN static THEN static[k]
                      ELSE built.defaults[k]

\* a built APICall whose endpoint and default headers collide on a key, and
\* whose credential header replaces a default one
C16_Witness ==
  /\ built.op = "buildApiCall" /\ built.result.error = "none"
  /\ "shared" \in DOMAIN built.defaults
  /\ "shared" \in DOMAIN Endpoints[built.endpoint].headers
  /\ built.result.headers["shared"] = <<"endpoint">>
  /\ built.result.headers["Authorization"] = <<"Bearer ", "t1">>

\* C17 as stated: for an endpoint with a bearer-token strategy, params
\* without accessToken make the build fail with InvalidAuthParams; otherwise
\* the request carries the header Authorization = 'Bearer ' + accessToken.
C17_BearerCredentialAlways ==
  (built.op = "buildApiCall" /\ BuiltWithBearer)
    => IF built.params.accessToken = "none"
       THEN built.result.error = "InvalidAuthParams"
       ELSE /\ built.result.error = "none"
            /\ built.result.headers["Authorization"]
                 = <<"Bearer ", built.params.accessToken>>

\* C17 amended: the same, for a call whose URL resolves (the strategy runs
\* after URL resolution, whose error comes first).
C17_BearerCredential ==
  (built.op = "buildApiCall" /\ BuiltWithBearer
     /\ RequestUrl(Endpoints[built.endpoint], built.params,
                   built.overwriteUrl).error = "none")
    => IF built.params.accessToken = "none"
       THEN built.result.error = "InvalidAuthParams"
       ELSE /\ built.result.error = "none"
            /\ built.result.headers["Authorization"]
                 = <<"Bearer ", built.params.accessToken>>

\* a bearer endpoint built without a token, its URL resolved from the template
C17_Witness ==
  /\ built.op = "buildApiCall" /\ BuiltWithBearer
  /\ built.overwriteUrl = <<>>
  /\ built.params.accessToken = "none"
  /\ built.result.error = "InvalidAuthParams"

\* the path leads to a value in the payload, followed field by field
RECURSIVE PathExists(_, _)
PathExists(payload, path) ==
  IF path = <<>> THEN TRUE
  ELSE /\ payload.kind = "object"
       /\ Head(path) \in DOMAIN payload.fields
       /\ PathExists(payload.fields[Head(path)], Tail(path))

\* the value the path leads to (the path exists)
RECURSIVE ValueAt(_, _)
ValueAt(payload, path) ==
  IF path = <<>> THEN payload
  ELSE ValueAt(payload.fields[Head(path)], Tail(path))

\* C18: with a mapping table the normalized data has exactly the target keys
\* whose source path exists in the raw payload, each holding the value at that
\* path; every other target key is left out and warned about.
C18_ObjectMapping ==
  built.op = "normalizeWithObjectMapping" =>
    LET present == {k \in DOMAIN built.mapping :
                      PathExists(built.payload, built.mapping[k])}
        data == built.result.data
    IN  /\ data.kind = "object"
        /\ DOMAIN data.fields = present
        /\ \A k \in present :
             data.fields[k] = ValueAt(built.payload, built.mapping[k])
        /\ built.result.warned = DOMAIN built.mapping \ present

\* a mapping with one key found two levels down and one key missing
C18_Witness ==
  /\ built.op = "normalizeWithObjectMapping"
  /\ DOMAIN built.mapping = TargetKeys
  /\ built.mapping["x"] = <<"a", "b">>
  /\ DOMAIN built.result.data.fields = {"x"}
  /\ built.result.data.fields["x"] = [kind |-> "leaf", value |-> "abc"]
  /\ built.result.warned = {"y"}

NormOf(c) == Endpoints[calls[c].endpoint].norm

\* C19: with a function rule the response data is replaced by the return
\* value of the function, and an error the function raises makes call() fail
\* with that error; with no rule the response data is returned as it came.
C19_FunctionRule ==
  \A c \in CallIds :
    /\ (Returned(c) /\ NormOf(c) = "function") => calls[c].data = "function"
    /\ Count(calls[c].log, "throws") > 0
         => (Failed(c) /\ calls[c].error = "NormalizationError")
    /\ (Returned(c) /\ NormOf(c) = "none" /\ calls[c].response > 0)
         => calls[c].data = "raw"

\* one call failed with the error of its normalization function, the other
\* returned the return value of the function
C19_Witness ==
  /\ \E c \in CallIds :
       Count(calls[c].log, "throws") > 0 /\ calls[c].error = "NormalizationError"
  /\ \E c \in CallIds :
       Returned(c) /\ NormOf(c) = "function" /\ calls[c].data = "function"

\* the levels of the chain that declare the name as an endpoint
DeclaringLevels(chain, name) ==
  {i \in 1..MaxChainDepth : chain[i][name] = "declared"}

\* the most-derived of them (the service's own class is level 1)
MostDerived(chain, name) ==
  CHOOSE i \in DeclaringLevels(chain, name) :
    \A j \in DeclaringLevels(chain, name) : i <= j

\* C20: a name declared at several levels of the inheritance chain has one
\* descriptor in the registry, the one of the most-derived declaration.
C20_MostDerivedWins ==
  built.op = "initEndpoints" =>
    \A name \in MethodNames :
      Cardinality(DeclaringLevels(built.chain, name)) >= 2
        => built.result[name] = MostDerived(built.chain, name)

\* C21: constructing a service whose endpoint declarations name a strategy
\* type for which no strategy instance is supplied (NONE is built in) fails
\* at construction.
C21_ConstructionValidatesStrategies ==
  (built.op = "constructor"
     /\ \E type \in built.declared :
          type # "NONE" /\ type \notin built.supplied)
    => built.result.error # "none"

\* entry i of the log of c follows an entry x with no dispatch in between
FollowsInAttempt(c, i, x) ==
  \E j \in 1..(i - 1) :
    /\ calls[c].log[j] = x
    /\ \A k \in j..i : calls[c].log[k] # "doCall"

\* C22: on a provider error the strategy's onApiError is invoked, and before
\* the service-level onApiError; in an attempt that the strategy ends with a
\* Retry signal the service-level onApiError is not invoked.
C22_StrategyHookFirst ==
  \A c \in CallIds :
    /\ \A i \in DOMAIN calls[c].log :
         /\ calls[c].log[i] = "onApiError"
              => FollowsInAttempt(c, i, "authStrategy.onApiError")
         /\ calls[c].log[i] = "apiError"
              => (i < Len(calls[c].log)
                    /\ calls[c].log[i + 1] = "authStrategy.onApiError")
    /\ \A n \in DOMAIN calls[c].thrown :
         calls[c].thrown[n] = "RetryAPICall"
           => ~DuringAttempt(c, n, "onApiError")

\* a call whose first attempt ended in a Retry signal and whose retried
\* attempt met a provider error that went through both hooks
C22_Witness ==
  \E c \in CallIds :
    /\ Len(calls[c].thrown) = 2
    /\ calls[c].thrown[1] = "RetryAPICall"
    /\ DuringAttempt(c, 2, "authStrategy.onApiError")
    /\ DuringAttempt(c, 2, "onApiError")

\* the strategy of the endpoint c is calling answers "do not bubble" under
\* the hook behaviour h
StrategyVetoes(c, h) ==
  LET r == StrategyOnApiError(Endpoints[calls[c].endpoint].authentication, h)
  IN  r.kind = "return" /\ ~r.value

\* C23: when the strategy's onApiError or the service-level onApiError
\* answers "do not bubble" for a provider error, call() does not fail with
\* that provider error.
C23_EitherHookVetoes ==
  [][\A c \in CallIds, h \in ApiErrorInputs :
       (TransportFails(c, TRUE, h)
          /\ (StrategyVetoes(c, h) \/ h.onApiError = "false"))
         => calls'[c].error # "ProviderError"]_vars

\* the strategy of the endpoint c is calling consults isAuthError under the
\* hook behaviour h, and isAuthError returns true
IsAuthErrorReturnsTrue(c, h) ==
  LET type == Endpoints[calls[c].endpoint].authentication
  IN  /\ type # "NONE"
      /\ type = "REFRESHABLE_BEARER_TOKEN" => ~h.isAccessTokenExpiredError
      /\ h.isAuthError

\* c's strategy invoked onAuthError in this step
OnAuthErrorInvoked(c) ==
  Count(calls'[c].log, "onAuthError") > Count(calls[c].log, "onAuthError")

\* C24: for a provider error, onAuthError is invoked exactly when isAuthError
\* returns true; with the base onAuthError the call then fails with
\* AuthenticationFailed, with no further dispatch, having emitted before,
\* error, after.
C24_AuthErrorIsTerminal ==
  [][\A c \in CallIds, h \in ApiErrorInputs :
       TransportFails(c, TRUE, h) =>
         /\ OnAuthErrorInvoked(c) <=> IsAuthErrorReturnsTrue(c, h)
         /\ (IsAuthErrorReturnsTrue(c, h) /\ h.onAuthError = "throw") =>
              /\ calls'[c].result = "failed"
              /\ calls'[c].error = "AuthenticationFailed"
              /\ Count(calls'[c].log, "doCall") = Count(calls[c].log, "doCall")
              /\ SelectSeq(calls'[c].log, IsEvent) = BeforeErrorAfter]_vars

\* C25: on an expired-token error the refreshable strategy calls
\* refreshAccessToken and, the refresh having answered with a token, throws
\* RetryAPICall with a new APICall (another object, the same endpoint, the
\* refreshed token as credential, the original payload); on any other error
\* it makes no refresh and answers as the base classification does.
C25_RefreshThenRetry ==
  built.op = "onApiError" =>
    /\ built.h.isAccessTokenExpiredError =>
         /\ built.result.refreshes = 1
         /\ built.newTokens \in AccessTokens =>
              /\ built.result.thrown = "RetryAPICall"
              /\ built.result.newApiCall.id # built.apiCall.id
              /\ built.result.newApiCall.endpoint = built.apiCall.endpoint
              /\ "Authorization" \in DOMAIN built.result.newApiCall.request.headers
              /\ built.result.newApiCall.request.headers["Authorization"]
                   = <<"Bearer ", built.newTokens>>
              /\ built.result.newApiCall.payload = built.callParams.payload
    /\ ~built.h.isAccessTokenExpiredError =>
         /\ built.result.refreshes = 0
         /\ built.result.thrown = BaseOnApiError(built.h).error
         /\ built.result.bubbleUp = BaseOnApiError(built.h).value

\* the refresh that starts at entry i of the log of c has ended by entry j
RefreshEndedBetween(c, i, j) ==
  \E k \in (i + 1)..(j - 1) : calls[c].log[k] \in {"refreshed", "refreshFailed"}

\* C26: within one invocation a refresh starts only after the dispatch before
\* it has failed, and a dispatch starts only after every refresh started
\* before it has completed: first dispatch, refresh, second dispatch, in that
\* order and never overlapping.
C26_DispatchRefreshDispatch ==
  \A c \in CallIds :
    \A i \in DOMAIN calls[c].log :
      /\ calls[c].log[i] = "refreshAccessToken"
           => FollowsInAttempt(c, i, "apiError")
      /\ calls[c].log[i] = "doCall" =>
           /\ \A j \in 1..(i - 1) :
                calls[c].log[j] = "refreshAccessToken"
                  => RefreshEndedBetween(c, j, i)
           /\ i = DispatchAt(c, 2) =>
                \E j \in 1..(i - 1) :
                  /\ calls[c].log[j] = "refreshed"
                  /\ DispatchAt(c, 1) < Index(calls[c].log, "apiError", 1)
                  /\ Index(calls[c].log, "apiError", 1)
                       < Index(calls[c].log, "refreshAccessToken", 1)
                  /\ Index(calls[c].log, "refreshAccessToken", 1) < j

\* an invocation that made its second dispatch after a refresh
C26_Witness ==
  \E c \in CallIds :
    /\ Dispatches(c) = 2
    /\ Index(calls[c].log, "refreshAccessToken", 1) > DispatchAt(c, 1)
    /\ Index(calls[c].log, "refreshed", 1) < DispatchAt(c, 2)

\* the first attempt of c failed with an error its strategy classified as
\* expired-token
FirstAttemptExpired(c) == DuringAttempt(c, 1, "isAccessTokenExpiredError")

\* the refreshes c has invoked
Refreshes(c) == Count(calls[c].log, "refreshAccessToken")

C28_RolloverFrame ==
  [][\A c \in CallIds :
       Checked(c) =>
         IF ~InsideWindow
         THEN /\ lastWindowOverflow' = Len(rateLimitedApiCalls)
              /\ currentRateLimitWindowStart' = now
              /\ rateLimitWindowCounter' = 1
              /\ rateLimitedApiCalls' = <<>>
         ELSE /\ currentRateLimitWindowStart' = currentRateLimitWindowStart
              /\ lastWindowOverflow' = lastWindowOverflow]_vars

\* a window just opened by a check that counted the rejections of the window
\* before it and cleared the buffer
C28_Witness ==
  /\ currentRateLimitWindowStart = now /\ now > 0
  /\ lastWindowOverflow > 0
  /\ rateLimitedApiCalls = <<>>
  /\ \E c \in CallIds : Count(calls[c].log, "reject") = lastWindowOverflow

\* the check looked at by EnforceGlobalRateLimit was made at a rollover
AtRollover ==
  built.op = "enforceGlobalRateLimit" /\ WindowExpired(built.now, built.window)

\* the overflow of the window just ended
EndedOverflow == Len(built.window.rateLimited)

\* C29 as stated: at a rollover the limiter logs an escalating warning when
\* the overflow of the window just ended is greater than that of the prior
\* window, and a plain warning otherwise.
C29_EscalatesOnGrowth ==
  AtRollover =>
    built.logged = (IF EndedOverflow > built.window.lastOverflow
                    THEN "error" ELSE "warn")

\* C29 amended: at a rollover the limiter logs nothing when the window just
\* ended rejected no call; otherwise an escalating message when the prior
\* window had overflowed too and the overflow grew, and a plain warning in
\* every other case; a check inside the window logs nothing.
C29_EscalatesOnGrowthOfOverflow ==
  built.op = "enforceGlobalRateLimit" =>
    /\ (AtRollover /\ EndedOverflow = 0) => built.logged = "none"
    /\ (AtRollover /\ EndedOverflow > 0) =>
         built.logged = (IF built.window.lastOverflow > 0
                            /\ EndedOverflow > built.window.lastOverflow
                         THEN "error" ELSE "warn")
    /\ ~AtRollover => built.logged = "none"

\* a rollover after two overflowing windows, the second worse than the
\* first: the escalating message is logged
C29_Witness ==
  /\ AtRollover
  /\ built.window.lastOverflow > 0
  /\ EndedOverflow > built.window.lastOverflow
  /\ built.logged = "error"

\* the construction steps of call() in the order the claim gives them, by
\* the error each fails with
StepErrors ==
  <<"EndpointNotFound", "AuthStrategyNotConfigured", "MissingPathParameter",
    "InvalidAuthParams", "InvalidMethod">>

\* step k, taken on its own, fails for a call of the endpoint name with p
Fault(k, name, p) ==
  CASE k = 1 -> name \notin EndpointNames
    [] k = 2 -> /\ name \in EndpointNames
                /\ Endpoints[name].authentication
                     \notin {"NONE", "BEARER_TOKEN", "REFRESHABLE_BEARER_TOKEN"}
    [] k = 3 -> ~p.overwriteUrl /\ ~p.pathParams
    [] k = 4 -> /\ name \in EndpointNames
                /\ Endpoints[name].authentication
                     \in {"BEARER_TOKEN", "REFRESHABLE_BEARER_TOKEN"}
                /\ ~p.accessToken
    [] OTHER -> /\ name \in EndpointNames
                /\ Endpoints[name].method \notin {"GET", "POST", "DELETE", "PATCH"}

Faults(name, p) == {k \in DOMAIN StepErrors : Fault(k, name, p)}

EarliestFault(name, p) ==
  CHOOSE k \in Faults(name, p) : \A j \in Faults(name, p) : k <= j

C31_OtherErrorPropagates ==
  \A c \in CallIds :
    \A n \in 1..2 :
      DuringAttempt(c, n, "otherError") =>
        /\ ~DuringAttempt(c, n, "authStrategy.onApiError")
        /\ ~DuringAttempt(c, n, "onApiError")
        /\ Dispatches(c) = n
        /\ Done(c) /\ Failed(c) /\ calls[c].error = "TransportError"

\* the transport dispatches started in this step
RECURSIVE DispatchesInStep(_)
DispatchesInStep(S) ==
  IF S = {} THEN 0
  ELSE LET c == CHOOSE x \in S : TRUE
       IN  (Count(calls'[c].log, "doCall") - Count(calls[c].log, "doCall"))
             + DispatchesInStep(S \ {c})

\* C32: every dispatch, the retried one too, directly follows an admission of
\* its own (so an invocation has as many admissions as dispatches, two when
\* it is retried); every step starts as many dispatches as it makes
\* admissions, and the admissions of one window never exceed rateLimit(), so
\* neither do its dispatches.
C32_DispatchNeedsAdmission ==
  /\ [](/\ \A c \in CallIds :
            /\ \A i \in DOMAIN calls[c].log :
                 calls[c].log[i] = "doCall"
                   => (i > 1 /\ calls[c].log[i - 1] = "admit")
            /\ Count(calls[c].log, "admit") = Dispatches(c)
         /\ admittedInWindow <= RateLimit)
  /\ [][DispatchesInStep(CallIds) = AdmissionsInStep(CallIds)]_vars

\* a retried invocation that consumed two admissions, in a window that is
\* full
C32_Witness ==
  /\ admittedInWindow = RateLimit
  /\ \E c \in CallIds :
       Dispatches(c) = 2 /\ Count(calls[c].log, "admit") = 2

\* no hook of c has vetoed a provider error: no executeApiCall of c returned
\* after its dispatch had failed
NoVetoedError(c) ==
  \A n \in DOMAIN calls[c].thrown :
    calls[c].thrown[n] = "none" => ~DuringAttempt(c, n, "apiError")

\* C33: with hooks that veto no error, an invocation that emitted success or
\* returned holds the response the transport gave to its latest dispatch;
\* one whose latest attempt failed or was rejected reports no success.
C33_SuccessHoldsLatestResponse ==
  \A c \in CallIds :
    (NoVetoedError(c) /\ (Returned(c) \/ Count(calls[c].log, "success") > 0))
      => /\ Dispatches(c) > 0
         /\ calls[c].response = Dispatches(c)
         /\ DuringAttempt(c, Dispatches(c), "ok")
         /\ calls[c].log[Len(calls[c].log)] # "reject"
         /\ Count(calls[c].log, "reject") = 0

\* C34: an invocation invokes refreshAccessToken at most once, whatever its
\* attempts end in.
C34_AtMostOneRefresh ==
  \A c \in CallIds : Refreshes(c) <= 1

\* C35: the params object call() was given, which it hands to the strategy's
\* onApiError and delivers with its events and to a normalization function,
\* holds the caller's payload when the strategy's hook is over, after a
\* refresh too.
C35_ParamsPayloadKept ==
  built.op = "onApiError" =>
    built.result.callParams.payload = built.callParams.payload

\* C36: when the failed attempt of a call made with overwriteUrl is retried
\* after a refresh, the request of the retried attempt goes to overwriteUrl
\* as well.
C36_RetryKeepsOverwriteUrl ==
  (built.op = "onApiError"
     /\ built.apiCall.url \in OverwriteUrlInputs
     /\ built.result.thrown = "RetryAPICall")
    => built.result.newApiCall.request.url = built.apiCall.url

\* the placeholder names the extraction step recognises in the template
\* constructUrl was applied to
BuiltRequiredNames ==
  LET names == extractPathParamNames(resolveBaseUrl(built.url))
  IN  {names[i] : i \in DOMAIN names}

\* C37: a URL that constructUrl returns holds none of the `/:name`
\* placeholders the extraction step recognised in the template, whatever
\* follows them in the template.
C37_NoPlaceholderLeft ==
  (built.op = "constructUrl" /\ built.result.error = "none")
    => \A i \in DOMAIN built.result.url :
         PlaceholderAt(built.result.url, i)
           => SubSeq(built.result.url, i + 2, NameRunEnd(built.result.url, i + 2))
                \notin BuiltRequiredNames

\* C38: an invocation that failed with the error of a construction step
\* (endpoint lookup, auth-strategy resolution, URL resolution,
\* authStrategy.execute, method validation) has emitted no event and has made
\* no admission check, the one operation that writes the rate-limit state.
C38_ConstructionFailureLeavesNoTrace ==
  \A c \in CallIds :
    (Failed(c) /\ calls[c].error \in ConstructionErrors)
      => /\ Events(c) = <<>>
         /\ Count(calls[c].log, "admit") + Count(calls[c].log, "reject") = 0

\* the headers a request built with accessToken is to carry
OwnHeaders(accessToken) ==
  StrategyExecute(Endpoints[built.endpoint].authentication, accessToken, <<>>,
                  addDefaultHeaders(built.defaults,
                                    Endpoints[built.endpoint].headers)).headers

\* C39: after two APICalls were built for one endpoint, the endpoint
\* descriptor's headers object is what the registry declared, the two
\* requests hold header objects of their own, and each carries the headers
\* of its own call, with its own token and not the other call's.
C39_CredentialsStayInTheirCall ==
  built.op = "buildTwoApiCalls" =>
    /\ built.heap[0] = Endpoints[built.endpoint].headers
    /\ built.refs[1] # built.refs[2]
    /\ 0 \notin {built.refs[1], built.refs[2]}
    /\ built.heap[built.refs[1]] = OwnHeaders(built.tokens[1])
    /\ built.heap[built.refs[2]] = OwnHeaders(built.tokens[2])

\* two calls of a bearer endpoint with static headers, built with different
\* tokens, each request carrying its own
C39_Witness ==
  /\ built.op = "buildTwoApiCalls"
  /\ built.tokens[1] # built.tokens[2]
  /\ Endpoints[built.endpoint].headers # EmptyHeaders
  /\ built.heap[built.refs[1]]["Authorization"] = <<"Bearer ", built.tokens[1]>>
  /\ built.heap[built.refs[2]]["Authorization"] = <<"Bearer ", built.tokens[2]>>

\* C40: an invocation that was started ends, returning or failing, when its
\* dispatches and refreshes complete, and it hands at most two requests to
\* the transport.
C40_CallTerminates ==
  /\ \A c \in CallIds : (calls[c].pc # "idle") ~> (calls[c].pc = "done")
  /\ [](\A c \in CallIds : Dispatches(c) <= 2 /\ calls[c].attempt <= 2)

\* an invocation that ended after a refresh and a second dispatch
C40_Witness ==
  \E c \in CallIds :
    /\ calls[c].pc = "done"
    /\ Dispatches(c) = 2
    /\ Refreshes(c) >= 1

====
